---------------------------- MODULE Spec2Model ----------------------------
(***************************************************************************)
(* IcmpTunnel: a TCP stream tunnelled over ICMP Echo messages.             *)
(*                                                                         *)
(*   Icmp.py    IcmpPacket.Create / Parse / Checksum  (the wire codec)     *)
(*   Tunnel.py  Tunnel.Run, Server (responder), Client (initiator)         *)
(*                                                                         *)
(* The methods are modelled as Python 3 executes them.  Python values      *)
(* whose type decides what the code does carry a type tag: bytes, str,     *)
(* int and None.  A call that may raise yields a result record whose field *)
(* exc names the exception ("" when the call returned).                    *)
(*                                                                         *)
(* Icmp.py line 42 names IcmpPacket.MAGIC as a default argument while the  *)
(* class body is still being executed, so importing the module raises      *)
(* NameError: the program started from IcmpTunnel.py ends there, and that  *)
(* is what Spec describes.  The other specifications describe the methods  *)
(* of the classes as written, on engines taken as constructed, with that   *)
(* default read as the class constant MAGIC (what the docstring on line 54 *)
(* says it is).                                                            *)
(***************************************************************************)
EXTENDS Integers, Sequences, FiniteSets, TLC

\* ------------------------------------------------------------------ bounds

\* longest payload the codec specification encodes and decodes
MaxPayload == 3

\* number of socket events (datagrams received, stream reads) in one run
MaxEvents == 2

\* --------------------------------------------------------- program constants

ICMP_ECHO_REPLY == 0

ICMP_ECHO_REQUEST == 8

\* 0x24426886
MAGIC == 608331910

\* struct.calcsize("!BBHHHBBH4s4s")
IP_HEADER_SIZE == 20

\* struct.calcsize("!BBHHH4sHL")
ICMP_HEADER_SIZE == 18

\* ------------------------------------------------------------ Python values

None == [t |-> "None", v |-> <<>>]

\* a bytes object
Bytes(b) == [t |-> "bytes", v |-> b]

\* a str; the text of a dotted-quad address is kept as its four numbers, and
\* "" is Str(<<>>)
Str(s) == [t |-> "str", v |-> s]

PyInt(n) == [t |-> "int", v |-> <<n>>]

\* a (host, port) tuple
Tuple(h, p) == [t |-> "tuple", v |-> <<h, p>>]

Ok(x) == [exc |-> "", val |-> x]

Raise(e) == [exc |-> e, val |-> None]

\* s[a:b] of Python, on a sequence indexed from 1
Slice(s, a, b) ==
    LET hi == IF b < Len(s) THEN b ELSE Len(s)
    IN  IF a >= hi THEN <<>> ELSE SubSeq(s, a + 1, hi)

\* big-endian ("!") conversions of struct
BE16(hi, lo) == hi * 256 + lo

BE32(b) == ((b[1] * 256 + b[2]) * 256 + b[3]) * 256 + b[4]

Pack16(n) == << n \div 256, n % 256 >>

Pack32(n) ==
    << n \div 16777216, (n \div 65536) % 256, (n \div 256) % 256, n % 256 >>

\* socket.inet_ntoa: four packed bytes to the address text
inet_ntoa(x) ==
    IF x.t # "bytes" THEN Raise("TypeError")
    ELSE IF Len(x.v) # 4 THEN Raise("OSError")
    ELSE Ok(Str(x.v))

\* socket.inet_aton: the address text to four packed bytes
inet_aton(x) ==
    IF x.t # "str" THEN Raise("TypeError")
    ELSE IF Len(x.v) # 4 THEN Raise("OSError")
    ELSE Ok(Bytes(x.v))

\* --------------------------------------------------------------- IcmpPacket

IcmpPacket(type, code, checksum, id, sequence, payload, srcIp, dst, magic) ==
    [type |-> type, code |-> code, checksum |-> checksum, id |-> id,
     sequence |-> sequence, payload |-> payload, srcIp |-> srcIp,
     dst |-> dst, magic |-> magic]

\* struct.unpack(IP_HEADER, raw): the ten fields of "!BBHHHBBH4s4s"
UnpackIpHeader(raw) ==
    IF Len(raw) # IP_HEADER_SIZE THEN Raise("struct.error")
    ELSE Ok(<< PyInt(raw[1]), PyInt(raw[2]), PyInt(BE16(raw[3], raw[4])),
               PyInt(BE16(raw[5], raw[6])), PyInt(BE16(raw[7], raw[8])),
               PyInt(raw[9]), PyInt(raw[10]), PyInt(BE16(raw[11], raw[12])),
               Bytes(SubSeq(raw, 13, 16)), Bytes(SubSeq(raw, 17, 20)) >>)

\* struct.unpack(ICMP_HEADER, raw): the eight fields of "!BBHHH4sHL"
UnpackIcmpHeader(raw) ==
    IF Len(raw) # ICMP_HEADER_SIZE THEN Raise("struct.error")
    ELSE Ok(<< PyInt(raw[1]), PyInt(raw[2]), PyInt(BE16(raw[3], raw[4])),
               PyInt(BE16(raw[5], raw[6])), PyInt(BE16(raw[7], raw[8])),
               Bytes(SubSeq(raw, 9, 12)), PyInt(BE16(raw[13], raw[14])),
               PyInt(BE32(SubSeq(raw, 15, 18))) >>)

\* struct.pack(ICMP_HEADER [+ "<n>s"], *packArgs): packArgs is the list of
\* eight header arguments, payload the ninth when the format has "<n>s"
PackIcmp(packArgs, payload) ==
    IF \/ \E i \in {1, 2, 3, 4, 5, 7, 8} : packArgs[i].t # "int"
       \/ packArgs[6].t # "bytes"
    THEN Raise("struct.error")
    ELSE IF \/ packArgs[1].v[1] > 255 \/ packArgs[2].v[1] > 255
            \/ \E i \in {3, 4, 5, 7} : packArgs[i].v[1] > 65535
    THEN Raise("struct.error")
    ELSE Ok(Bytes(<< packArgs[1].v[1], packArgs[2].v[1] >>
                  \o Pack16(packArgs[3].v[1]) \o Pack16(packArgs[4].v[1])
                  \o Pack16(packArgs[5].v[1])
                  \o [i \in 1..4 |-> IF i <= Len(packArgs[6].v)
                                     THEN packArgs[6].v[i] ELSE 0]
                  \o Pack16(packArgs[7].v[1]) \o Pack32(packArgs[8].v[1])
                  \o payload))

\* The 32-bit accumulator of Checksum after the first n byte pairs, kept as
\* two 16-bit halves <<high, low>>: adding x and masking with 0xFFFFFFFF.
Add32(acc, x) ==
    LET lo == acc[2] + x
    IN  << (acc[1] + lo \div 65536) % 65536, lo % 65536 >>

RECURSIVE SumPairs(_, _)
SumPairs(packet, n) ==
    IF n = 0 THEN << 0, 0 >>
    ELSE Add32(SumPairs(packet, n - 1),
               (packet[2 * n - 1] + packet[2 * n]) * 256)

\* IcmpPacket.Checksum(packet), packet a bytes object
Checksum(packet) ==
    LET length == (Len(packet) \div 2) * 2
        summed == SumPairs(packet, length \div 2)
        withOdd == IF length < Len(packet)
                   THEN Add32(summed, packet[Len(packet)])
                   ELSE summed
        folded == withOdd[1] + withOdd[2]
        carried == folded + folded \div 65536
        answer == 65535 - (carried % 65536)
    IN  (answer \div 256) + ((answer % 256) * 256)

\* IcmpPacket.Create(self)
Create(self) ==
    IF self.dst.t # "tuple" THEN Raise("TypeError")
    ELSE
    LET dstIp == inet_aton(self.dst.v[1])
        magic == inet_aton(self.magic)
    IN  IF dstIp.exc # "" THEN Raise(dstIp.exc)
        ELSE IF magic.exc # "" THEN Raise(magic.exc)
        ELSE
        LET packArgs == << PyInt(self.type), PyInt(self.code), PyInt(0),
                           PyInt(self.id), PyInt(self.sequence), dstIp.val,
                           self.dst.v[2], magic.val >>
            payload == IF Len(self.payload.v) > 0 THEN self.payload.v
                       ELSE <<>>
            first == IF Len(self.payload.v) > 0 /\ self.payload.t # "bytes"
                     THEN Raise("struct.error")
                     ELSE PackIcmp(packArgs, payload)
        IN  IF first.exc # "" THEN Raise(first.exc)
            ELSE PackIcmp([packArgs EXCEPT ![3] = PyInt(Checksum(first.val.v))],
                          payload)

\* IcmpPacket.Parse up to the conversion of the magic: the fields as unpacked
\* and the two addresses converted to text
ParseFields(packet) ==
    LET rawIpPacket == Slice(packet, 0, IP_HEADER_SIZE)
        rawIcmpPacket == Slice(packet, IP_HEADER_SIZE, Len(packet))
        ipPacket == UnpackIpHeader(rawIpPacket)
        payloadSize == Len(rawIcmpPacket) - ICMP_HEADER_SIZE
        payload == IF payloadSize > 0
                   THEN Bytes(Slice(rawIcmpPacket, ICMP_HEADER_SIZE,
                                    Len(rawIcmpPacket)))
                   ELSE Str(<<>>)
        hdr == UnpackIcmpHeader(Slice(rawIcmpPacket, 0, ICMP_HEADER_SIZE))
    IN  IF ipPacket.exc # "" THEN Raise(ipPacket.exc)
        ELSE IF hdr.exc # "" THEN Raise(hdr.exc)
        ELSE
        LET srcIp == inet_ntoa(ipPacket.val[9])
            dstIp == inet_ntoa(hdr.val[6])
        IN  IF srcIp.exc # "" THEN Raise(srcIp.exc)
            ELSE IF dstIp.exc # "" THEN Raise(dstIp.exc)
            ELSE Ok(IcmpPacket(hdr.val[1].v[1], hdr.val[2].v[1],
                               hdr.val[3].v[1], hdr.val[4].v[1],
                               hdr.val[5].v[1], payload, srcIp.val,
                               Tuple(dstIp.val, hdr.val[7]), hdr.val[8]))

\* Parse as it would be with the magic left as the unpacked integer
ParseKeepsMagic(packet) == ParseFields(packet)

\* Parse as it would be with the magic left as the unpacked integer and the
\* first two header fields bound in the wrong order (code, type = ...)
ParseSwapsTypeCode(packet) ==
    LET f == ParseFields(packet)
    IN  IF f.exc # "" THEN f
        ELSE Ok([f.val EXCEPT !.type = f.val.code, !.code = f.val.type])

\* IcmpPacket.Parse(packet): line 118 hands the source address, already
\* converted to text on line 116, to inet_ntoa a second time
Parse(packet) ==
    LET f == ParseFields(packet)
    IN  IF f.exc # "" THEN f
        ELSE LET magic == inet_ntoa(f.val.srcIp)
             IN  IF magic.exc # "" THEN Raise(magic.exc)
                 ELSE Ok([f.val EXCEPT !.magic = magic.val])

\* ------------------------------------------------------- the wire and inputs

\* The 20 bytes of an option-less IPv4 header as the kernel delivers it in
\* front of the ICMP region (layout of IP_HEADER): protocol 1, source src
IpHeader(src, dstIp, icmpLen) ==
    << 69, 0 >> \o Pack16(IP_HEADER_SIZE + icmpLen)
    \o << 0, 0, 0, 0, 64, 1, 0, 0 >> \o src \o dstIp

\* The ICMP region of a tunnel packet as laid out by ICMP_HEADER:
\* type, code, checksum, id = 0, sequence = 0, dstAddr, dstPort, magic, payload
IcmpRegion(type, code, checksum, dstAddr, dstPort, magic, payload) ==
    << type, code >> \o Pack16(checksum) \o << 0, 0, 0, 0 >> \o dstAddr
    \o Pack16(dstPort) \o Pack32(magic) \o payload

\* The Internet checksum (RFC 1071) of a byte sequence: big-endian 16-bit
\* words, an odd trailing byte the high byte of a last word, carries folded
\* twice, inverted
RECURSIVE SumWords(_, _)
SumWords(b, n) ==
    IF n = 0 THEN 0
    ELSE SumWords(b, n - 1)
         + BE16(b[2 * n - 1], IF 2 * n <= Len(b) THEN b[2 * n] ELSE 0)

InternetChecksum(b) ==
    LET s0 == SumWords(b, (Len(b) + 1) \div 2)
        s1 == (s0 % 65536) + (s0 \div 65536)
        s2 == (s1 % 65536) + (s1 \div 65536)
    IN  65535 - (s2 % 65536)

\* A datagram as a conforming peer sends it and the raw socket delivers it
Datagram(src, type, code, dstAddr, dstPort, magic, payload) ==
    LET zeroed == IcmpRegion(type, code, 0, dstAddr, dstPort, magic, payload)
    IN  IpHeader(src, << 10, 0, 0, 1 >>, Len(zeroed))
        \o IcmpRegion(type, code, InternetChecksum(zeroed), dstAddr, dstPort,
                      magic, payload)

\* addresses and ports of the runs
PeerAddr == << 10, 0, 0, 100 >>

StrangerAddr == << 10, 0, 0, 200 >>

ProxyAddr == << 10, 0, 0, 1 >>

DstAddr == << 10, 0, 0, 5 >>

OtherDstAddr == << 192, 168, 1, 77 >>

\* a magic other than MAGIC (an unrelated Echo message)
OtherMagic == MAGIC + 1

PayloadBytes == { 71, 255 }

RECURSIVE SeqsUpTo(_, _)
SeqsUpTo(S, n) ==
    IF n = 0 THEN { <<>> }
    ELSE LET shorter == SeqsUpTo(S, n - 1)
         IN  shorter \cup { Append(s, x) : s \in shorter, x \in S }

\* payloads the codec specification encodes
Payloads == SeqsUpTo(PayloadBytes, MaxPayload)

\* what one read of a stream socket returns (<<>>: end of stream)
Chunks == { <<>>, << 71 >>, << 71, 69 >> }

\* well-formed datagrams arriving on a raw ICMP socket: tunnel packets from
\* the peer and Echo messages with another magic from an unrelated host
WellFormed ==
    { Datagram(PeerAddr, ty, co, DstAddr, 80, MAGIC, pl) :
        ty \in { ICMP_ECHO_REQUEST, ICMP_ECHO_REPLY }, co \in { 0, 1 },
        pl \in { <<>>, << 71 >> } }
    \cup
    { Datagram(StrangerAddr, ty, co, OtherDstAddr, 8080, OtherMagic, pl) :
        ty \in { ICMP_ECHO_REQUEST, ICMP_ECHO_REPLY }, co \in { 0, 1 },
        pl \in { <<>>, << 71 >> } }

\* datagrams whose ICMP region is shorter than the 18-byte prefix (an Echo
\* message with no data, or with two bytes of it)
Truncated ==
    { SubSeq(Datagram(StrangerAddr, ICMP_ECHO_REQUEST, 0, DstAddr, 80, MAGIC,
                      <<>>), 1, n) : n \in { 28, 30 } }

Datagrams == WellFormed \cup Truncated

\* fields of a well-formed datagram, read off the wire layout
WireSrc(d) == SubSeq(d, 13, 16)

WireType(d) == d[IP_HEADER_SIZE + 1]

WireCode(d) == d[IP_HEADER_SIZE + 2]

WireDst(d) ==
    Tuple(Str(SubSeq(d, IP_HEADER_SIZE + 9, IP_HEADER_SIZE + 12)),
          PyInt(BE16(d[IP_HEADER_SIZE + 13], d[IP_HEADER_SIZE + 14])))

WireMagic(d) == BE32(SubSeq(d, IP_HEADER_SIZE + 15, IP_HEADER_SIZE + 18))

WirePayload(d) == SubSeq(d, IP_HEADER_SIZE + ICMP_HEADER_SIZE + 1, Len(d))

IsWellFormed(d) == Len(d) >= IP_HEADER_SIZE + ICMP_HEADER_SIZE

\* -------------------------------------------------------------------- state

VARIABLES
    \* the codec exercised on its own
    codecIn,        \* the packet handed to Create
    created,        \* what Create returned or raised
    cksum,          \* what Checksum returned on the zero-checksum image
    parsed,         \* what Parse returned or raised
    \* Server (the responder)
    srvSrc,         \* Server.src
    srvDst,         \* Server.dst
    srvTcpSocket,   \* Server.tcpSocket
    srvSockets,     \* Server.sockets
    srvBatch,       \* sockets select() reported that Run has yet to handle
    srvPc,          \* "starting", "running", or "crashed" once an exception
                    \* left the program
    srvExc,         \* the exception that left Run
    srvConns,       \* every TCP connection the server created, by descriptor
    srvIcmpSent,    \* what the server passed to icmpSocket.sendto
    srvReads,       \* what the server read from its stream socket
    \* Client (the initiator)
    cliProxy,       \* Client.proxy
    cliDst,         \* Client.dst
    cliSockets,     \* Client.sockets = [tcpSocket, icmpSocket]
    cliBatch,
    cliPc,          \* "starting", "running", "crashed", or "exited" after
                    \* exit()
    cliExc,
    cliTcpSent,     \* what the client wrote to the accepted stream
    cliIcmpSent,    \* what the client passed to icmpSocket.sendto
    cliReads,       \* what the client read from the accepted stream
    \* the socket events handled so far, in order
    events

codecVars == << codecIn, created, cksum, parsed >>

srvVars == << srvSrc, srvDst, srvTcpSocket, srvSockets, srvBatch, srvPc,
              srvExc, srvConns, srvIcmpSent, srvReads >>

cliVars == << cliProxy, cliDst, cliSockets, cliBatch, cliPc, cliExc,
              cliTcpSent, cliIcmpSent, cliReads >>

vars == << codecVars, srvVars, cliVars, events >>

\* a socket object: its protocol and its descriptor
Socket(proto, fd) == [t |-> "socket", v |-> << proto, fd >>]

Pending == [exc |-> "pending", val |-> None]

Last(s) == s[Len(s)]

\* ------------------------------------------------------------------- Server

\* Server.__init__ with line 84 reading "self.sockets = []": the ICMP socket
\* is opened but not watched
ServerInitNoWatch ==
    /\ srvSrc = None
    /\ srvDst = None
    /\ srvTcpSocket = None
    /\ srvSockets = <<>>
    /\ srvBatch = <<>>
    /\ srvPc = "running"
    /\ srvExc = ""
    /\ srvConns = <<>>
    /\ srvIcmpSent = <<>>
    /\ srvReads = <<>>

\* Server.__init__
ServerInit ==
    /\ srvSrc = None
    /\ srvDst = None
    /\ srvTcpSocket = None
    /\ srvSockets = << Socket("icmp", 0) >>
    /\ srvBatch = <<>>
    /\ srvPc = "running"
    /\ srvExc = ""
    /\ srvConns = <<>>
    /\ srvIcmpSent = <<>>
    /\ srvReads = <<>>

\* an exception leaves the handler and, uncaught, Run
ServerRaises(e) == srvPc' = "crashed" /\ srvExc' = e

\* list.remove(x): the list without its first x
Remove(list, x) ==
    LET i == CHOOSE k \in 1..Len(list) :
                 list[k] = x /\ \A j \in 1..(k - 1) : list[j] # x
    IN  SubSeq(list, 1, i - 1) \o SubSeq(list, i + 1, Len(list))

Contains(list, x) == \E k \in 1..Len(list) : list[k] = x

\* what the network does to a connect and to a send on a stream socket
NetOutcomes == { "ok", "connect fails", "send fails" }

\* Server.HandleIcmp(socket): recvfrom returned the datagram data, sent by
\* the host named in its IP header
ServerHandleIcmp(data, net) ==
    LET address == << Str(WireSrc(data)), 0 >>
        parse == Parse(data)
        packet == parse.val
    IN
    /\ UNCHANGED << srvIcmpSent, srvReads >>
    /\ IF parse.exc # ""
       THEN \* except Exception: return
            UNCHANGED << srvSrc, srvDst, srvTcpSocket, srvSockets, srvPc,
                         srvExc, srvConns >>
       ELSE
       /\ srvSrc' = address[1]
       /\ srvDst' = packet.dst
       /\ IF packet.magic # PyInt(MAGIC)
          THEN UNCHANGED << srvTcpSocket, srvSockets, srvPc, srvExc,
                            srvConns >>
          ELSE IF packet.type = ICMP_ECHO_REPLY /\ packet.code = 0
          THEN UNCHANGED << srvTcpSocket, srvSockets, srvPc, srvExc,
                            srvConns >>
          ELSE IF packet.type = ICMP_ECHO_REQUEST /\ packet.code = 1
          THEN \* Close requested
               IF ~Contains(srvSockets, srvTcpSocket)
               THEN /\ ServerRaises("ValueError")
                    /\ UNCHANGED << srvTcpSocket, srvSockets, srvConns >>
               ELSE /\ srvSockets' = Remove(srvSockets, srvTcpSocket)
                    /\ srvConns' = [srvConns EXCEPT
                                      ![srvTcpSocket.v[2]].open = FALSE]
                    /\ srvTcpSocket' = None
                    /\ UNCHANGED << srvPc, srvExc >>
          ELSE \* Create socket if it doesnt exist, then send the payload
               LET fresh == srvTcpSocket = None
                   fd == IF fresh THEN Len(srvConns) + 1
                         ELSE srvTcpSocket.v[2]
                   conns == IF fresh
                            THEN Append(srvConns, [dst |-> packet.dst,
                                                   open |-> TRUE,
                                                   sent |-> <<>>])
                            ELSE srvConns
               IN  IF fresh /\ net = "connect fails"
                   THEN /\ ServerRaises("OSError")
                        /\ UNCHANGED << srvTcpSocket, srvSockets, srvConns >>
                   ELSE
                   /\ srvTcpSocket' = Socket("tcp", fd)
                   /\ srvSockets' = IF fresh
                                    THEN Append(srvSockets, Socket("tcp", fd))
                                    ELSE srvSockets
                   /\ IF packet.payload.t # "bytes"
                      THEN /\ ServerRaises("TypeError")
                           /\ srvConns' = conns
                      ELSE IF net = "send fails" \/ ~conns[fd].open
                      THEN /\ ServerRaises("OSError")
                           /\ srvConns' = conns
                      ELSE /\ srvConns' = [conns EXCEPT ![fd].sent =
                                             Append(@, packet.payload.v)]
                           /\ UNCHANGED << srvPc, srvExc >>

\* what recv hands back when it raises (the peer reset the connection)
RecvError == << -1 >>

\* Server.HandleTcp(sock): recv returned data (<<>> at end of stream) or
\* raised
ServerHandleTcp(sock, data) ==
    /\ UNCHANGED << srvSrc, srvDst, srvTcpSocket, srvSockets, srvConns >>
    /\ IF ~srvConns[sock.v[2]].open \/ data = RecvError
       THEN \* recv on a closed socket, or on one the peer reset
            /\ ServerRaises("OSError")
            /\ UNCHANGED << srvIcmpSent, srvReads >>
       ELSE
       LET packet == IcmpPacket(ICMP_ECHO_REPLY, 0, 0, 0, 0, Bytes(data),
                                srvSrc, srvDst, PyInt(MAGIC))
           wire == Create(packet)
       IN  /\ srvReads' = Append(srvReads, data)
           /\ IF wire.exc # ""
              THEN /\ ServerRaises(wire.exc)
                   /\ UNCHANGED srvIcmpSent
              ELSE /\ srvIcmpSent' = Append(srvIcmpSent,
                                            [to |-> << srvSrc, 0 >>,
                                             data |-> wire.val.v])
                   /\ UNCHANGED << srvPc, srvExc >>

\* select.select(self.sockets, [], []): the readable sockets, in list order
ReadyLists(sockets) ==
    { SelectSeq(sockets, LAMBDA x : x \in S) :
        S \in (SUBSET { sockets[i] : i \in 1..Len(sockets) }) \ { {} } }

\* Tunnel.Run of the server, at select
ServerSelect ==
    /\ srvPc = "running"
    /\ srvBatch = <<>>
    /\ Len(events) < MaxEvents
    /\ srvBatch' \in ReadyLists(srvSockets)
    /\ UNCHANGED << srvSrc, srvDst, srvTcpSocket, srvSockets, srvPc, srvExc,
                    srvConns, srvIcmpSent, srvReads >>
    /\ UNCHANGED << codecVars, cliVars, events >>

\* Tunnel.Run of the server, the body of "for sock in socketsRead", the ICMP
\* socket delivering one of datagrams
ServerDispatchFrom(datagrams) ==
    /\ srvPc = "running"
    /\ srvBatch # <<>>
    /\ Len(events) < MaxEvents
    /\ srvBatch' = Tail(srvBatch)
    /\ LET sock == Head(srvBatch)
       IN  IF sock.v[1] = "icmp"
           THEN \E data \in datagrams, net \in NetOutcomes :
                  /\ ServerHandleIcmp(data, net)
                  /\ events' = Append(events, [who |-> "server",
                                               sock |-> "icmp",
                                               data |-> data])
           ELSE \E data \in Chunks \cup { RecvError } :
                  /\ ServerHandleTcp(sock, data)
                  /\ events' = Append(events, [who |-> "server",
                                               sock |-> "tcp",
                                               data |-> data])
    /\ UNCHANGED << codecVars, cliVars >>

\* the server's loop body, any host sending to the raw socket
ServerDispatch == ServerDispatchFrom(Datagrams)

\* ------------------------------------------------------------------- Client

\* Client.__init__, as ClientProxy.Run calls it with the accepted connection
ClientInit ==
    /\ cliProxy = Str(ProxyAddr)
    /\ cliDst = Tuple(Str(DstAddr), PyInt(80))
    /\ cliSockets = << Socket("tcp", 1), Socket("icmp", 0) >>
    /\ cliBatch = <<>>
    /\ cliPc = "running"
    /\ cliExc = ""
    /\ cliTcpSent = <<>>
    /\ cliIcmpSent = <<>>
    /\ cliReads = <<>>

\* an exception leaves the handler and, uncaught, Run
ClientRaises(e) == cliPc' = "crashed" /\ cliExc' = e

\* Client.HandleIcmp(sock): recvfrom returned the datagram data
ClientHandleIcmp(data) ==
    LET parse == Parse(data)
        packet == parse.val
    IN
    /\ UNCHANGED << cliProxy, cliDst, cliSockets, cliIcmpSent, cliReads >>
    /\ IF parse.exc # ""
       THEN \* except: return
            UNCHANGED << cliPc, cliExc, cliTcpSent >>
       ELSE IF packet.magic # PyInt(MAGIC)
       THEN UNCHANGED << cliPc, cliExc, cliTcpSent >>
       ELSE IF packet.type # ICMP_ECHO_REQUEST
       THEN IF packet.payload.t # "bytes"
            THEN /\ ClientRaises("TypeError")
                 /\ UNCHANGED cliTcpSent
            ELSE /\ cliTcpSent' = Append(cliTcpSent, packet.payload.v)
                 /\ UNCHANGED << cliPc, cliExc >>
       ELSE UNCHANGED << cliPc, cliExc, cliTcpSent >>

\* self.tcpSocket.getsockname(): the local end of the accepted connection
LocalAddr == Tuple(Str(<< 127, 0, 0, 1 >>), PyInt(5000))

\* Client.HandleTcp(sock): recv returned data (<<>> at end of stream) or
\* raised
ClientHandleTcp(data) ==
    LET code == IF Len(data) > 0 THEN 0 ELSE 1
        packet == IcmpPacket(ICMP_ECHO_REQUEST, code, 0, 0, 0, Bytes(data),
                             LocalAddr, cliDst, PyInt(MAGIC))
        wire == Create(packet)
    IN
    /\ UNCHANGED << cliProxy, cliDst, cliSockets, cliTcpSent >>
    /\ IF data = RecvError
       THEN \* recv on a connection the peer reset
            /\ ClientRaises("OSError")
            /\ UNCHANGED << cliIcmpSent, cliReads >>
       ELSE
       /\ cliReads' = Append(cliReads, data)
       /\ IF wire.exc # ""
          THEN /\ ClientRaises(wire.exc)
               /\ UNCHANGED cliIcmpSent
          ELSE /\ cliIcmpSent' = Append(cliIcmpSent,
                                        [to |-> << cliProxy, 1 >>,
                                         data |-> wire.val.v])
               /\ IF code = 1
                  THEN \* exit()
                       cliPc' = "exited" /\ UNCHANGED cliExc
                  ELSE UNCHANGED << cliPc, cliExc >>

\* Tunnel.Run of the client, at select
ClientSelect ==
    /\ cliPc = "running"
    /\ cliBatch = <<>>
    /\ Len(events) < MaxEvents
    /\ cliBatch' \in ReadyLists(cliSockets)
    /\ UNCHANGED << cliProxy, cliDst, cliSockets, cliPc, cliExc, cliTcpSent,
                    cliIcmpSent, cliReads >>
    /\ UNCHANGED << codecVars, srvVars, events >>

\* Tunnel.Run of the client, the body of "for sock in socketsRead", the ICMP
\* socket delivering one of datagrams
ClientDispatchFrom(datagrams) ==
    /\ cliPc = "running"
    /\ cliBatch # <<>>
    /\ Len(events) < MaxEvents
    /\ cliBatch' = Tail(cliBatch)
    /\ LET sock == Head(cliBatch)
       IN  IF sock.v[1] = "icmp"
           THEN \E data \in datagrams :
                  /\ ClientHandleIcmp(data)
                  /\ events' = Append(events, [who |-> "client",
                                               sock |-> "icmp",
                                               data |-> data])
           ELSE \E data \in Chunks \cup { RecvError } :
                  /\ ClientHandleTcp(data)
                  /\ events' = Append(events, [who |-> "client",
                                               sock |-> "tcp",
                                               data |-> data])
    /\ UNCHANGED << codecVars, srvVars >>

\* the client's loop body, any host sending to the raw socket
ClientDispatch == ClientDispatchFrom(Datagrams)

\* ---------------------------------------------------------------- the codec

NoPacket == IcmpPacket(0, 0, 0, 0, 0, Bytes(<<>>), None, None, PyInt(MAGIC))

CodecIdle ==
    /\ codecIn = NoPacket
    /\ created = Pending
    /\ cksum = -1
    /\ parsed = Pending

\* the packets handed to the codec: both types, both codes, two destinations
CodecInputs ==
    { IcmpPacket(ty, co, 0, 0, 0, Bytes(pl), None, dst, PyInt(MAGIC)) :
        ty \in { ICMP_ECHO_REQUEST, ICMP_ECHO_REPLY }, co \in { 0, 1 },
        pl \in Payloads,
        dst \in { Tuple(Str(DstAddr), PyInt(80)),
                  Tuple(Str(OtherDstAddr), PyInt(8080)) } }

\* the ICMP region of codecIn with the checksum slot zero: what the
\* struct.pack on line 83 of Icmp.py is meant to hand to Checksum
ZeroedImage ==
    IcmpRegion(codecIn.type, codecIn.code, 0, codecIn.dst.v[1].v,
               codecIn.dst.v[2].v[1], codecIn.magic.v[1], codecIn.payload.v)

\* the datagram Parse is given: the bytes Create returned behind an IP
\* header or, Create having raised, codecIn as a conforming peer encodes it
CodecDatagram ==
    IF created.exc = ""
    THEN IpHeader(PeerAddr, ProxyAddr, Len(created.val.v)) \o created.val.v
    ELSE Datagram(PeerAddr, codecIn.type, codecIn.code, codecIn.dst.v[1].v,
                  codecIn.dst.v[2].v[1], codecIn.magic.v[1],
                  codecIn.payload.v)

CodecInit ==
    /\ codecIn \in CodecInputs
    /\ created = Pending
    /\ cksum = -1
    /\ parsed = Pending

CodecCreate ==
    /\ codecIn # NoPacket
    /\ created = Pending
    /\ created' = Create(codecIn)
    /\ UNCHANGED << codecIn, cksum, parsed, srvVars, cliVars, events >>

CodecChecksum ==
    /\ codecIn # NoPacket
    /\ cksum = -1
    /\ cksum' = Checksum(ZeroedImage)
    /\ UNCHANGED << codecIn, created, parsed, srvVars, cliVars, events >>

CodecParse ==
    /\ codecIn # NoPacket
    /\ created # Pending
    /\ parsed = Pending
    /\ parsed' = Parse(CodecDatagram)
    /\ UNCHANGED << codecIn, created, cksum, srvVars, cliVars, events >>

\* ------------------------------------------------------- the specifications

\* The program as started: "python IcmpTunnel.py server" on one host and
\* "python IcmpTunnel.py client -p ... -lh ... -lp ... -dh ... -dp ..." on
\* another, neither having got past its imports yet

\* "from Tunnel import *" (IcmpTunnel.py line 6) imports Icmp, whose class
\* body evaluates the default argument IcmpPacket.MAGIC on line 42 before
\* the name IcmpPacket is bound
ImportIcmp == Raise("NameError")

Init ==
    /\ CodecIdle
    /\ srvSrc = None /\ srvDst = None /\ srvTcpSocket = None
    /\ srvSockets = <<>> /\ srvBatch = <<>>
    /\ srvPc = "starting" /\ srvExc = ""
    /\ srvConns = <<>> /\ srvIcmpSent = <<>> /\ srvReads = <<>>
    /\ cliProxy = None /\ cliDst = None
    /\ cliSockets = <<>> /\ cliBatch = <<>>
    /\ cliPc = "starting" /\ cliExc = ""
    /\ cliTcpSent = <<>> /\ cliIcmpSent = <<>> /\ cliReads = <<>>
    /\ events = <<>>

\* the server process: the imports, then main's Server().Run()
ServerMain ==
    /\ srvPc = "starting"
    /\ IF ImportIcmp.exc # ""
       THEN /\ ServerRaises(ImportIcmp.exc)
            /\ UNCHANGED << srvSrc, srvDst, srvTcpSocket, srvSockets,
                            srvBatch, srvConns, srvIcmpSent, srvReads >>
       ELSE ServerInit'
    /\ UNCHANGED << codecVars, cliVars, events >>

\* the client process: the imports, then main's ClientProxy(...).Run()
ClientMain ==
    /\ cliPc = "starting"
    /\ IF ImportIcmp.exc # ""
       THEN /\ ClientRaises(ImportIcmp.exc)
            /\ UNCHANGED << cliProxy, cliDst, cliSockets, cliBatch,
                            cliTcpSent, cliIcmpSent, cliReads >>
       ELSE ClientInit'
    /\ UNCHANGED << codecVars, srvVars, events >>

Next == ServerMain \/ ClientMain

Spec == Init /\ [][Next]_vars

\* The two engines taken as constructed (Server.__init__, Client.__init__),
\* each in Tunnel.Run and fed by the network.  No run of Spec gets here: this
\* is the code of the two classes, exercised as written
InitEngines == CodecIdle /\ ServerInit /\ ClientInit /\ events = <<>>

NextEngines ==
    ServerSelect \/ ServerDispatch \/ ClientSelect \/ ClientDispatch

SpecEngines == InitEngines /\ [][NextEngines]_vars

\* The codec on its own: Create, Checksum and Parse applied to each input
InitCodec == CodecInit /\ ServerInit /\ ClientInit /\ events = <<>>

NextCodec == CodecCreate \/ CodecChecksum \/ CodecParse

SpecCodec == InitCodec /\ [][NextCodec]_vars

\* The tunnel, its engines taken as constructed: the client on the host
\* PeerAddr and the server on the host ProxyAddr, each raw socket receiving,
\* in the order sent and without loss, what the other engine sent to its
\* host, and besides that only the datagrams of the unrelated host
\* StrangerAddr

\* the packets of sent addressed to host, in the order sent
Addressed(sent, host) == SelectSeq(sent, LAMBDA m : m.to[1] = Str(host))

\* how many datagrams from the host src the engine who has received
Delivered(who, src) ==
    Cardinality({ i \in 1..Len(events) :
                    /\ events[i].who = who /\ events[i].sock = "icmp"
                    /\ WireSrc(events[i].data) = src })

\* the next datagram of the channel from src to dst, if one is in flight
InFlight(sent, who, src, dst) ==
    LET queue == Addressed(sent, dst)
        n == Delivered(who, src)
    IN  IF n < Len(queue)
        THEN { IpHeader(src, dst, Len(queue[n + 1].data))
                 \o queue[n + 1].data }
        ELSE {}

\* what other hosts send to either raw socket
Noise == { d \in Datagrams : WireSrc(d) = StrangerAddr }

TunnelServerDispatch ==
    ServerDispatchFrom(InFlight(cliIcmpSent, "server", PeerAddr, ProxyAddr)
                       \cup Noise)

TunnelClientDispatch ==
    ClientDispatchFrom(InFlight(srvIcmpSent, "client", ProxyAddr, PeerAddr)
                       \cup Noise)

\* both engines taken as constructed, as in InitEngines
InitTunnel == InitEngines

NextTunnel ==
    \/ ServerSelect
    \/ TunnelServerDispatch
    \/ ClientSelect
    \/ TunnelClientDispatch

\* each readiness loop keeps running while it has something to do
SpecTunnel ==
    /\ InitTunnel
    /\ [][NextTunnel]_vars
    /\ WF_vars(ServerSelect \/ TunnelServerDispatch)
    /\ WF_vars(ClientSelect \/ TunnelClientDispatch)

\* ------------------------------------------------------------------- claims

\* a well-formed datagram carrying the tunnel magic
IsTunnel(d) == IsWellFormed(d) /\ WireMagic(d) = MAGIC

\* fields of an ICMP region handed to sendto, read off the wire layout
RegionType(b) == b[1]

RegionCode(b) == b[2]

RegionChecksum(b) == BE16(b[3], b[4])

RegionIdSeq(b) == SubSeq(b, 5, 8)

RegionDst(b) == Tuple(Str(SubSeq(b, 9, 12)), PyInt(BE16(b[13], b[14])))

RegionMagic(b) == BE32(SubSeq(b, 15, 18))

RegionPayload(b) == SubSeq(b, ICMP_HEADER_SIZE + 1, Len(b))

\* C1: the bytes Create returns for a packet, behind an IP header, are decoded
\* by Parse into a packet with the same type, code, destination and payload
\* and with the magic 0x24426886 as an integer; neither call raises.
RoundTrip ==
    /\ created # Pending => created.exc = ""
    /\ parsed # Pending =>
         /\ parsed.exc = ""
         /\ parsed.val.type = codecIn.type
         /\ parsed.val.code = codecIn.code
         /\ parsed.val.dst = codecIn.dst
         /\ parsed.val.magic = PyInt(MAGIC)
         /\ parsed.val.payload.v = codecIn.payload.v

\* C2: the checksum the code computes for a packet, stored big-endian in the
\* checksum slot, is the Internet checksum of the packet with that slot zero.
ChecksumLaw ==
    /\ cksum # -1 => cksum = InternetChecksum(ZeroedImage)
    /\ (created # Pending /\ created.exc = "") =>
         RegionChecksum(created.val.v) = InternetChecksum(ZeroedImage)

\* C3: handling a well-formed datagram whose magic is not MAGIC changes
\* nothing: on the server src, dst, tcpSocket, sockets, the connections and
\* what was written to them, the packets sent and the run state stay as they
\* were; on the client nothing is written to the stream socket.
MagicFiltering ==
    [][ (/\ events' # events
         /\ Last(events').sock = "icmp"
         /\ IsWellFormed(Last(events').data)
         /\ WireMagic(Last(events').data) # MAGIC)
        => /\ Last(events').who = "server" =>
                UNCHANGED << srvSrc, srvDst, srvTcpSocket, srvSockets,
                             srvConns, srvIcmpSent, srvPc >>
           /\ Last(events').who = "client" =>
                UNCHANGED << cliTcpSent, cliIcmpSent >> ]_vars

\* C3 witness: the server and the client have each handled a well-formed
\* datagram with another magic
MagicFilteringWitness ==
    /\ \E i \in 1..Len(events) :
         /\ events[i].who = "server" /\ events[i].sock = "icmp"
         /\ IsWellFormed(events[i].data) /\ WireMagic(events[i].data) # MAGIC
    /\ \E i \in 1..Len(events) :
         /\ events[i].who = "client" /\ events[i].sock = "icmp"
         /\ IsWellFormed(events[i].data) /\ WireMagic(events[i].data) # MAGIC

\* the server handled datagram d as the event e
IsServerRequest(e, code) ==
    /\ e.who = "server" /\ e.sock = "icmp"
    /\ IsTunnel(e.data)
    /\ WireType(e.data) = ICMP_ECHO_REQUEST
    /\ WireCode(e.data) = code

\* C4: an (Echo Request, END) tunnel packet handled while tcpSocket is None
\* leaves tcpSocket None and sockets = [icmpSocket], raises nothing and
\* leaves Run running.
IdempotentEnd ==
    [][ (/\ events' # events
         /\ IsServerRequest(Last(events'), 1)
         /\ srvTcpSocket = None)
        => /\ srvTcpSocket' = None
           /\ srvSockets' = << Socket("icmp", 0) >>
           /\ srvPc' = "running"
           /\ srvExc' = "" ]_vars

\* C4 witness: two END requests handled in succession, the server running
IdempotentEndWitness ==
    /\ Len(events) >= 2
    /\ IsServerRequest(events[Len(events) - 1], 1)
    /\ IsServerRequest(events[Len(events)], 1)
    /\ srvTcpSocket = None
    /\ srvPc = "running"

\* C5: the client writes nothing to its stream socket when it handles an Echo
\* Request, and whenever it writes to the stream socket it is handling an
\* Echo Reply that carries the tunnel magic.
NoSelfEcho ==
    [][ /\ (/\ events' # events
            /\ Last(events').who = "client"
            /\ Last(events').sock = "icmp"
            /\ IsWellFormed(Last(events').data)
            /\ WireType(Last(events').data) = ICMP_ECHO_REQUEST)
           => cliTcpSent' = cliTcpSent
        /\ cliTcpSent' # cliTcpSent
           => /\ events' # events
              /\ Last(events').who = "client"
              /\ Last(events').sock = "icmp"
              /\ IsTunnel(Last(events').data)
              /\ WireType(Last(events').data) = ICMP_ECHO_REPLY ]_vars

\* C5 witness: the client has handled an Echo Request with the tunnel magic
\* and a payload, and is still running
NoSelfEchoWitness ==
    /\ events # <<>>
    /\ Last(events).who = "client" /\ Last(events).sock = "icmp"
    /\ IsTunnel(Last(events).data)
    /\ WireType(Last(events).data) = ICMP_ECHO_REQUEST
    /\ WirePayload(Last(events).data) # <<>>
    /\ cliPc = "running"

\* C6: after the server handles a tunnel (Echo Request, DATA) packet with a
\* payload it has a stream socket, connected to the embedded destination and
\* in sockets, and the payload is the last thing written to it; after it
\* handles an (Echo Request, END) packet it has none, sockets holds the ICMP
\* socket alone and every connection it made is closed.
SessionLifecycle ==
    events # <<>> =>
      /\ (IsServerRequest(Last(events), 0)
          /\ WirePayload(Last(events).data) # <<>>)
         => /\ srvPc = "running"
            /\ srvTcpSocket # None
            /\ Contains(srvSockets, srvTcpSocket)
            /\ srvConns[srvTcpSocket.v[2]].open
            /\ srvConns[srvTcpSocket.v[2]].dst = WireDst(Last(events).data)
            /\ srvConns[srvTcpSocket.v[2]].sent # <<>>
            /\ Last(srvConns[srvTcpSocket.v[2]].sent)
                 = WirePayload(Last(events).data)
      /\ IsServerRequest(Last(events), 1)
         => /\ srvPc = "running"
            /\ srvTcpSocket = None
            /\ srvSockets = << Socket("icmp", 0) >>
            /\ \A i \in 1..Len(srvConns) : ~srvConns[i].open

\* the ICMP packets the client sent whose code is END
ClientEndsSent ==
    { i \in 1..Len(cliIcmpSent) : RegionCode(cliIcmpSent[i].data) = 1 }

\* C7: once a read of the client's stream has returned no bytes the client
\* has exited through exit(), and whenever it has exited that way the last
\* packet it sent, its only END packet, is an Echo Request with code 1 and no
\* payload, sent to the proxy.
InitiatorTeardown ==
    /\ (\E i \in 1..Len(events) :
          /\ events[i].who = "client" /\ events[i].sock = "tcp"
          /\ events[i].data = <<>>)
       => cliPc = "exited"
    /\ cliPc = "exited" =>
         /\ cliIcmpSent # <<>>
         /\ ClientEndsSent = { Len(cliIcmpSent) }
         /\ Last(cliIcmpSent).to = << cliProxy, 1 >>
         /\ RegionType(Last(cliIcmpSent).data) = ICMP_ECHO_REQUEST
         /\ RegionPayload(Last(cliIcmpSent).data) = <<>>

\* C8: the client has sent one ICMP packet for each stream read, each to the
\* proxy, of type Echo Request, with the configured destination, the tunnel
\* magic, id and sequence zero, the bytes read as payload, and code END
\* exactly when that payload is empty.
RequestShape ==
    /\ Len(cliIcmpSent) = Len(cliReads)
    /\ \A i \in 1..Len(cliIcmpSent) :
         /\ cliIcmpSent[i].to = << cliProxy, 1 >>
         /\ RegionType(cliIcmpSent[i].data) = ICMP_ECHO_REQUEST
         /\ RegionDst(cliIcmpSent[i].data) = cliDst
         /\ RegionMagic(cliIcmpSent[i].data) = MAGIC
         /\ RegionIdSeq(cliIcmpSent[i].data) = << 0, 0, 0, 0 >>
         /\ i <= Len(cliReads)
              => RegionPayload(cliIcmpSent[i].data) = cliReads[i]
         /\ RegionCode(cliIcmpSent[i].data) = 1
              <=> RegionPayload(cliIcmpSent[i].data) = <<>>

\* the payloads of the packets in a list of sent packets, in order
PayloadsOf(sent) == [i \in 1..Len(sent) |-> RegionPayload(sent[i].data)]

\* C9: in each engine the payloads of the ICMP packets sent so far are the
\* chunks read from its stream socket so far, in the same order.
PerDirectionOrdering ==
    /\ PayloadsOf(cliIcmpSent) = cliReads
    /\ PayloadsOf(srvIcmpSent) = srvReads

\* the sockets in a list of sockets
Watched(list) == { list[i] : i \in 1..Len(list) }

\* the server handled a datagram with the tunnel magic as the event e
IsServerTunnel(e) == e.who = "server" /\ e.sock = "icmp" /\ IsTunnel(e.data)

\* C11: in every state of the server, sockets holds each socket once, holds
\* the ICMP socket, holds tcpSocket exactly when tcpSocket is not None, holds
\* nothing else, and holds no closed socket.
WatchSetInvariant ==
    /\ Cardinality(Watched(srvSockets)) = Len(srvSockets)
    /\ Watched(srvSockets)
         = { Socket("icmp", 0) }
             \cup (IF srvTcpSocket = None THEN {} ELSE { srvTcpSocket })
    /\ \A s \in Watched(srvSockets) :
         s.v[1] = "tcp" => /\ s.v[2] \in 1..Len(srvConns)
                           /\ srvConns[s.v[2]].open

\* C11 witness: the server has handled a DATA request with a payload and then
\* an END request, both with the tunnel magic, and is running
WatchSetWitness ==
    /\ Len(events) >= 2
    /\ IsServerRequest(events[Len(events) - 1], 0)
    /\ WirePayload(events[Len(events) - 1].data) # <<>>
    /\ IsServerRequest(events[Len(events)], 1)
    /\ srvPc = "running"
    /\ Contains(srvSockets, Socket("icmp", 0))

\* the events in which the server handled a datagram with the tunnel magic
ServerTunnelEvents == { i \in 1..Len(events) : IsServerTunnel(events[i]) }

\* C13: src and dst are None until the server has handled a well-formed
\* datagram with the tunnel magic, and from then on are the IP source and
\* the embedded destination of the latest such datagram; every packet the
\* server has sent is addressed to a host that sent a tunnel datagram, never
\* to the source of a datagram with another magic.
ReplyAddressing ==
    /\ ServerTunnelEvents = {} => srvSrc = None /\ srvDst = None
    /\ ServerTunnelEvents # {} =>
         LET latest == CHOOSE i \in ServerTunnelEvents :
                           \A j \in ServerTunnelEvents : j <= i
         IN  /\ srvSrc = Str(WireSrc(events[latest].data))
             /\ srvDst = WireDst(events[latest].data)
    /\ \A k \in 1..Len(srvIcmpSent) :
         \E i \in ServerTunnelEvents :
             srvIcmpSent[k].to = << Str(WireSrc(events[i].data)), 0 >>

\* C14: when the server, with tcpSocket None, handles a tunnel (Echo Request,
\* DATA) packet whose payload is empty it makes no connection: tcpSocket
\* stays None, sockets stays [icmpSocket] and no connection is created.
EmptyDataOpensNothing ==
    [][ (/\ events' # events
         /\ IsServerRequest(Last(events'), 0)
         /\ WirePayload(Last(events').data) = <<>>
         /\ srvTcpSocket = None)
        => /\ srvTcpSocket' = None
           /\ srvSockets' = << Socket("icmp", 0) >>
           /\ srvConns' = srvConns ]_vars

\* C14 witness: the server, idle, has just handled an empty DATA request
EmptyDataWitness ==
    /\ events # <<>>
    /\ IsServerRequest(Last(events), 0)
    /\ WirePayload(Last(events).data) = <<>>
    /\ srvTcpSocket = None
    /\ srvSockets = << Socket("icmp", 0) >>

\* C16: when either engine handles a datagram shorter than the 20-byte IP
\* header plus the 18-byte ICMP prefix, src, dst, tcpSocket, sockets, the
\* connections, what was written to either stream and the packets sent stay
\* as they were and the engine keeps running; and a datagram of at least that
\* length is decoded, Parse raising nothing on it.
DecodeFailures ==
    [][ (events' # events /\ Last(events').sock = "icmp")
        => /\ ~IsWellFormed(Last(events').data)
                => /\ UNCHANGED << srvSrc, srvDst, srvTcpSocket, srvSockets,
                                   srvConns, srvIcmpSent, cliTcpSent,
                                   cliIcmpSent >>
                   /\ srvPc' = "running"
                   /\ cliPc' = cliPc
           /\ IsWellFormed(Last(events').data)
                => Parse(Last(events').data).exc = "" ]_vars

\* the step creates a connection or writes to one
StreamTouched ==
    \/ Len(srvConns') > Len(srvConns)
    \/ \E i \in 1..Len(srvConns) : srvConns'[i].sent # srvConns[i].sent

\* C17: the server creates a connection or writes to one only when it is
\* handling a tunnel packet of type Echo Request with code DATA; handling a
\* tunnel packet of type Echo Reply, with code 0 or code 1, leaves tcpSocket,
\* sockets and the connections as they were.
OnlyDataRequestsRelay ==
    [][ /\ StreamTouched
           => /\ events' # events
              /\ IsServerRequest(Last(events'), 0)
        /\ (/\ events' # events
            /\ IsServerTunnel(Last(events'))
            /\ WireType(Last(events').data) = ICMP_ECHO_REPLY)
           => UNCHANGED << srvTcpSocket, srvSockets, srvConns >> ]_vars

\* C17 witness: the server has just handled a tunnel Echo Reply with code 1
\* and a payload, and has no stream socket
OnlyDataRequestsWitness ==
    /\ events # <<>>
    /\ IsServerTunnel(Last(events))
    /\ WireType(Last(events).data) = ICMP_ECHO_REPLY
    /\ WireCode(Last(events).data) = 1
    /\ WirePayload(Last(events).data) # <<>>
    /\ srvTcpSocket = None
    /\ srvConns = <<>>

\* the connections the server made that are still open
OpenConns == { i \in 1..Len(srvConns) : srvConns[i].open }

\* a read of the client's stream has returned no bytes
ClientReachedEof ==
    \E i \in 1..Len(events) :
        /\ events[i].who = "client" /\ events[i].sock = "tcp"
        /\ events[i].data = <<>>

\* C19: in the tunnel, with both loops weakly fair, once a read of the
\* client's stream has returned no bytes the client ends as the teardown
\* has it end, by exit() after sending an END packet, and from some point on
\* the server has tcpSocket None, sockets = [icmpSocket] and no open
\* connection, for good.
TeardownLiveness ==
    [](ClientReachedEof
         => <>[](/\ cliPc = "exited"
                 /\ ClientEndsSent # {}
                 /\ srvTcpSocket = None
                 /\ srvSockets = << Socket("icmp", 0) >>
                 /\ OpenConns = {}))

=============================================================================
